---- MODULE Spec2Model ----
(***************************************************************************)
(* Model of package alb (src/alb.go): the adapter that turns an ALB event  *)
(* into an http.Request, runs an http.Handler against a response recorder  *)
(* and turns the recorded response into the ALB reply.                     *)
(*                                                                         *)
(* Go strings and []byte are sequences of bytes (0..255).  A Go map that   *)
(* may be nil is a record [nil, m]: m is the function the map holds        *)
(* (empty when the map is nil), nil tells a nil map from an empty one.     *)
(***************************************************************************)
EXTENDS Integers, Sequences, FiniteSets, TLC

(***************************************************************************)
(* Strings and maps                                                        *)
(***************************************************************************)
NilMap == [nil |-> TRUE, m |-> <<>>]

MkMap(f) == [nil |-> FALSE, m |-> f]

MapGet(m, k) == IF k \in DOMAIN m THEN m[k] ELSE <<>>

MapPut(m, k, v) == [x \in (DOMAIN m) \cup {k} |-> IF x = k THEN v ELSE m[x]]

\* The orders in which a Go range loop may visit the keys of a map.
Orders(S) == {o \in [1..Cardinality(S) -> S] : \A i, j \in DOMAIN o : o[i] = o[j] => i = j}

RECURSIVE IndexByte(_, _, _)
IndexByte(s, c, i) ==
  IF i > Len(s) THEN 0
  ELSE IF s[i] = c THEN i
  ELSE IndexByte(s, c, i + 1)

\* strings.Cut with a one-byte separator.
Cut(s, c) ==
  LET i == IndexByte(s, c, 1)
  IN IF i = 0 THEN [before |-> s, after |-> <<>>, found |-> FALSE]
     ELSE [before |-> SubSeq(s, 1, i - 1), after |-> SubSeq(s, i + 1, Len(s)), found |-> TRUE]

Contains(s, c) == IndexByte(s, c, 1) # 0

HasPrefix(s, p) == Len(s) >= Len(p) /\ SubSeq(s, 1, Len(p)) = p

RECURSIVE Flatten(_)
Flatten(ss) == IF ss = <<>> THEN <<>> ELSE Head(ss) \o Flatten(Tail(ss))

IsUpper(c) == c >= 65 /\ c <= 90

IsLower(c) == c >= 97 /\ c <= 122

IsDigit(c) == c >= 48 /\ c <= 57

(***************************************************************************)
(* request.HeadersProvided, request.QueryProvided                          *)
(***************************************************************************)
\* Each value of a single-value map wrapped as a one-element sequence.
Wrap(single) == [k \in DOMAIN single |-> <<single[k]>>]

\* The selection made on the length of the multi-value map, not on its presence.
HeadersProvidedByLen(req) ==
  IF DOMAIN req.MultiValueHeaders.m = {}
  THEN Wrap(req.Headers.m)
  ELSE req.MultiValueHeaders.m

HeadersProvided(req) ==
  IF req.MultiValueHeaders.nil
  THEN Wrap(req.Headers.m)
  ELSE req.MultiValueHeaders.m

QueryProvided(req) ==
  IF req.MultiValueQuery.nil
  THEN Wrap(req.Query.m)
  ELSE req.MultiValueQuery.m

(***************************************************************************)
(* textproto.CanonicalMIMEHeaderKey and http.Header.Get, as called by Run  *)
(***************************************************************************)
\* textproto.validHeaderFieldByte: the token characters of RFC 7230.
ValidHeaderFieldByte(c) ==
  \/ IsUpper(c) \/ IsLower(c) \/ IsDigit(c)
  \/ c \in {33, 35, 36, 37, 38, 39, 42, 43, 45, 46, 94, 95, 96, 124, 126}

\* Upper case at the start and after each '-', lower case elsewhere.
RECURSIVE CanonBytes(_, _)
CanonBytes(s, upper) ==
  IF s = <<>> THEN <<>>
  ELSE LET c == Head(s)
           d == IF upper /\ IsLower(c) THEN c - 32
                ELSE IF ~upper /\ IsUpper(c) THEN c + 32
                ELSE c
       IN <<d>> \o CanonBytes(Tail(s), d = 45)

\* A key holding a byte that is no token character is returned unchanged.
CanonicalMIMEHeaderKey(s) ==
  IF \E i \in DOMAIN s : ~ValidHeaderFieldByte(s[i]) THEN s
  ELSE CanonBytes(s, TRUE)

\* Run's loop appending to what the canonical key already holds.
RECURSIVE CanonicalizeHeadersMerged(_, _, _)
CanonicalizeHeadersMerged(hp, ord, acc) ==
  IF ord = <<>> THEN acc
  ELSE CanonicalizeHeadersMerged(hp, Tail(ord),
         MapPut(acc, CanonicalMIMEHeaderKey(Head(ord)),
                MapGet(acc, CanonicalMIMEHeaderKey(Head(ord))) \o hp[Head(ord)]))

\* Run's loop without the canonicalization: "headers[k] = v".
CanonicalizeHeadersRaw(hp, ord, acc) == [k \in DOMAIN hp |-> hp[k]]

\* Run's loop "headers[CanonicalMIMEHeaderKey(k)] = v" visiting the keys in order ord.
RECURSIVE CanonicalizeHeaders(_, _, _)
CanonicalizeHeaders(hp, ord, acc) ==
  IF ord = <<>> THEN acc
  ELSE CanonicalizeHeaders(hp, Tail(ord),
         MapPut(acc, CanonicalMIMEHeaderKey(Head(ord)), hp[Head(ord)]))

\* http.Header.Get: the first value stored under the canonical form of key, else "".
HeaderGet(h, key) ==
  LET vv == MapGet(h, CanonicalMIMEHeaderKey(key))
  IN IF vv = <<>> THEN <<>> ELSE vv[1]

(***************************************************************************)
(* buildURL, with net/url's Parse and URL.Query as it calls and feeds them *)
(***************************************************************************)
IsHex(c) == IsDigit(c) \/ (c >= 97 /\ c <= 102) \/ (c >= 65 /\ c <= 70)

Unhex(c) == IF IsDigit(c) THEN c - 48 ELSE IF c >= 97 THEN c - 87 ELSE c - 55

\* url.unescape's first pass: every '%' is followed by two hex digits.
RECURSIVE EscapesWellFormed(_)
EscapesWellFormed(s) ==
  IF s = <<>> THEN TRUE
  ELSE IF Head(s) = 37
       THEN /\ Len(s) >= 3
            /\ IsHex(s[2])
            /\ IsHex(s[3])
            /\ EscapesWellFormed(SubSeq(s, 4, Len(s)))
       ELSE EscapesWellFormed(Tail(s))

\* url.unescape's second pass: %XX becomes the byte, '+' a space in a query component.
RECURSIVE UnescapeBytes(_, _)
UnescapeBytes(s, plusIsSpace) ==
  IF s = <<>> THEN <<>>
  ELSE IF Head(s) = 37
       THEN <<Unhex(s[2]) * 16 + Unhex(s[3])>> \o UnescapeBytes(SubSeq(s, 4, Len(s)), plusIsSpace)
       ELSE IF Head(s) = 43 /\ plusIsSpace
            THEN <<32>> \o UnescapeBytes(Tail(s), plusIsSpace)
            ELSE <<Head(s)>> \o UnescapeBytes(Tail(s), plusIsSpace)

Unescape(s, plusIsSpace) ==
  IF EscapesWellFormed(s)
  THEN [ok |-> TRUE, s |-> UnescapeBytes(s, plusIsSpace)]
  ELSE [ok |-> FALSE, s |-> <<>>]

\* url.stringContainsCTLByte
ContainsCTLByte(s) == \E i \in DOMAIN s : s[i] < 32 \/ s[i] = 127

\* url.getScheme: [ok, scheme, rest].
RECURSIVE GetScheme(_, _)
GetScheme(rawURL, i) ==
  IF i > Len(rawURL) THEN [ok |-> TRUE, scheme |-> <<>>, rest |-> rawURL]
  ELSE LET c == rawURL[i]
       IN IF IsLower(c) \/ IsUpper(c) THEN GetScheme(rawURL, i + 1)
          ELSE IF IsDigit(c) \/ c \in {43, 45, 46}
               THEN IF i = 1 THEN [ok |-> TRUE, scheme |-> <<>>, rest |-> rawURL]
                    ELSE GetScheme(rawURL, i + 1)
          ELSE IF c = 58
               THEN IF i = 1 THEN [ok |-> FALSE, scheme |-> <<>>, rest |-> <<>>]
                    ELSE [ok |-> TRUE, scheme |-> SubSeq(rawURL, 1, i - 1),
                          rest |-> SubSeq(rawURL, i + 1, Len(rawURL))]
          ELSE [ok |-> TRUE, scheme |-> <<>>, rest |-> rawURL]

CountByte(s, c) == Cardinality({i \in DOMAIN s : s[i] = c})

BadURL == [ok |-> FALSE, Scheme |-> <<>>, Opaque |-> <<>>, Path |-> <<>>, RawQuery |-> <<>>, Fragment |-> <<>>]

\* url.parse(rawURL, viaRequest=false) for a string without '#'.  The strings the
\* model parses never begin with "//" after the scheme, so the authority is empty.
ParseNoFragment(u) ==
  IF ContainsCTLByte(u) THEN BadURL
  ELSE IF u = <<42>>
  THEN [ok |-> TRUE, Scheme |-> <<>>, Opaque |-> <<>>, Path |-> <<42>>, RawQuery |-> <<>>, Fragment |-> <<>>]
  ELSE
    LET sch == GetScheme(u, 1)
        scheme == [i \in DOMAIN sch.scheme |-> IF IsUpper(sch.scheme[i]) THEN sch.scheme[i] + 32 ELSE sch.scheme[i]]
        forceQuery == sch.rest # <<>> /\ sch.rest[Len(sch.rest)] = 63 /\ CountByte(sch.rest, 63) = 1
        cq == Cut(sch.rest, 63)
        rest == IF forceQuery THEN SubSeq(sch.rest, 1, Len(sch.rest) - 1) ELSE cq.before
        rawQuery == IF forceQuery THEN <<>> ELSE cq.after
        path == Unescape(rest, FALSE)
    IN IF ~sch.ok THEN BadURL
       ELSE IF ~HasPrefix(rest, <<47>>) /\ sch.scheme # <<>>
       THEN [ok |-> TRUE, Scheme |-> scheme, Opaque |-> rest, Path |-> <<>>, RawQuery |-> rawQuery, Fragment |-> <<>>]
       ELSE IF ~HasPrefix(rest, <<47>>) /\ Contains(Cut(rest, 47).before, 58) THEN BadURL
       ELSE IF ~path.ok THEN BadURL
       ELSE [ok |-> TRUE, Scheme |-> scheme, Opaque |-> <<>>, Path |-> path.s, RawQuery |-> rawQuery, Fragment |-> <<>>]

\* url.Parse: cut the fragment off, parse the rest, then unescape the fragment.
Parse(rawURL) ==
  LET cf == Cut(rawURL, 35)
      url == ParseNoFragment(cf.before)
      frag == Unescape(cf.after, FALSE)
  IN IF ~url.ok THEN BadURL
     ELSE IF cf.after = <<>> THEN url
     ELSE IF ~frag.ok THEN BadURL
     ELSE [url EXCEPT !.Fragment = frag.s]

\* url.parseQuery, whose error URL.Query drops: a pair holding ';' or a malformed
\* escape is skipped, the others are appended under their unescaped key.
RECURSIVE ParseQuery(_, _)
ParseQuery(query, m) ==
  IF query = <<>> THEN m
  ELSE LET c == Cut(query, 38)
           kv == Cut(c.before, 61)
           key == Unescape(kv.before, TRUE)
           value == Unescape(kv.after, TRUE)
       IN IF Contains(c.before, 59) \/ c.before = <<>> \/ ~key.ok \/ ~value.ok
          THEN ParseQuery(c.after, m)
          ELSE ParseQuery(c.after, MapPut(m, key.s, MapGet(m, key.s) \o <<value.s>>))

\* URL.Query(): what the handler reads as the request's query values.
URLQuery(u) == ParseQuery(u.RawQuery, <<>>)

\* The "k=vv" pairs buildURL writes for key k, each after the first preceded by '&'.
RECURSIVE PairsOf(_, _)
PairsOf(k, v) ==
  IF v = <<>> THEN <<>>
  ELSE <<k \o <<61>> \o Head(v)>> \o PairsOf(k, Tail(v))

RECURSIVE AllPairs(_, _)
AllPairs(query, ord) ==
  IF ord = <<>> THEN <<>>
  ELSE PairsOf(Head(ord), query[Head(ord)]) \o AllPairs(query, Tail(ord))

RECURSIVE JoinPairs(_, _)
JoinPairs(pairs, i) ==
  IF pairs = <<>> THEN <<>>
  ELSE (IF i # 0 THEN <<38>> ELSE <<>>) \o Head(pairs) \o JoinPairs(Tail(pairs), i + 1)

\* buildURL that escapes each key and value once more before writing it.
EscapePercent(s) == Flatten([i \in DOMAIN s |-> IF s[i] = 37 THEN <<37, 50, 53>> ELSE <<s[i]>>])

buildURLReescaped(path, query, ord) ==
  IF DOMAIN query = {} THEN Parse(path)
  ELSE Parse(path \o <<63>> \o
         JoinPairs(AllPairs([k \in DOMAIN query |-> [i \in DOMAIN query[k] |-> EscapePercent(query[k][i])]], ord), 0))

\* buildURL(path, query), ranging over the keys of query in order ord.
buildURL(path, query, ord) ==
  IF DOMAIN query = {} THEN Parse(path)
  ELSE Parse(path \o <<63>> \o JoinPairs(AllPairs(query, ord), 0))

(***************************************************************************)
(* encoding/base64 StdEncoding and unicode/utf8.Valid, as Run calls them   *)
(***************************************************************************)
\* The character of a 6-bit value in the standard alphabet.
B64Char(v) ==
  IF v < 26 THEN 65 + v
  ELSE IF v < 52 THEN 97 + (v - 26)
  ELSE IF v < 62 THEN 48 + (v - 52)
  ELSE IF v = 62 THEN 43
  ELSE 47

\* StdEncoding's decodeMap: the 6-bit value of a character, -1 outside the alphabet.
B64Val(c) ==
  IF IsUpper(c) THEN c - 65
  ELSE IF IsLower(c) THEN c - 97 + 26
  ELSE IF IsDigit(c) THEN c - 48 + 52
  ELSE IF c = 43 THEN 62
  ELSE IF c = 47 THEN 63
  ELSE -1

\* base64.StdEncoding.EncodeToString
RECURSIVE EncodeToString(_)
EncodeToString(b) ==
  IF b = <<>> THEN <<>>
  ELSE IF Len(b) = 1
  THEN <<B64Char(b[1] \div 4), B64Char((b[1] % 4) * 16), 61, 61>>
  ELSE IF Len(b) = 2
  THEN <<B64Char(b[1] \div 4), B64Char((b[1] % 4) * 16 + b[2] \div 16),
         B64Char((b[2] % 16) * 4), 61>>
  ELSE <<B64Char(b[1] \div 4), B64Char((b[1] % 4) * 16 + b[2] \div 16),
         B64Char((b[2] % 16) * 4 + b[3] \div 64), B64Char(b[3] % 64)>>
       \o EncodeToString(SubSeq(b, 4, Len(b)))

\* The decoder skips '\r' and '\n' wherever they stand.
StripNewlines(s) == SelectSeq(s, LAMBDA c : c # 10 /\ c # 13)

\* Quanta of four characters; only the last may end in "=" or "==".  The bits of
\* the last character before the padding that reach no byte are dropped unchecked.
RECURSIVE DecodeQuanta(_)
DecodeQuanta(s) ==
  IF s = <<>> THEN [ok |-> TRUE, b |-> <<>>]
  ELSE IF Len(s) < 4 THEN [ok |-> FALSE, b |-> <<>>]
  ELSE LET v1 == B64Val(s[1])
           v2 == B64Val(s[2])
           v3 == B64Val(s[3])
           v4 == B64Val(s[4])
           rest == DecodeQuanta(SubSeq(s, 5, Len(s)))
       IN IF v1 < 0 \/ v2 < 0 THEN [ok |-> FALSE, b |-> <<>>]
          ELSE IF s[3] = 61
          THEN IF s[4] = 61 /\ Len(s) = 4
               THEN [ok |-> TRUE, b |-> <<v1 * 4 + v2 \div 16>>]
               ELSE [ok |-> FALSE, b |-> <<>>]
          ELSE IF v3 < 0 THEN [ok |-> FALSE, b |-> <<>>]
          ELSE IF s[4] = 61
          THEN IF Len(s) = 4
               THEN [ok |-> TRUE, b |-> <<v1 * 4 + v2 \div 16, (v2 % 16) * 16 + v3 \div 4>>]
               ELSE [ok |-> FALSE, b |-> <<>>]
          ELSE IF v4 < 0 THEN [ok |-> FALSE, b |-> <<>>]
          ELSE IF ~rest.ok THEN [ok |-> FALSE, b |-> <<>>]
          ELSE [ok |-> TRUE,
                b |-> <<v1 * 4 + v2 \div 16, (v2 % 16) * 16 + v3 \div 4, (v3 % 4) * 64 + v4>> \o rest.b]

\* base64.StdEncoding.DecodeString: [ok, b].
DecodeString(s) == DecodeQuanta(StripNewlines(s))

IsCont(c) == c >= 128 /\ c <= 191

\* unicode/utf8.Valid
RECURSIVE Utf8Valid(_)
Utf8Valid(b) ==
  IF b = <<>> THEN TRUE
  ELSE LET c == b[1]
           n == Len(b)
       IN IF c < 128 THEN Utf8Valid(Tail(b))
          ELSE IF c >= 194 /\ c <= 223
          THEN n >= 2 /\ IsCont(b[2]) /\ Utf8Valid(SubSeq(b, 3, n))
          ELSE IF c >= 224 /\ c <= 239
          THEN /\ n >= 3
               /\ b[2] >= (IF c = 224 THEN 160 ELSE 128)
               /\ b[2] <= (IF c = 237 THEN 159 ELSE 191)
               /\ IsCont(b[3])
               /\ Utf8Valid(SubSeq(b, 4, n))
          ELSE IF c >= 240 /\ c <= 244
          THEN /\ n >= 4
               /\ b[2] >= (IF c = 240 THEN 144 ELSE 128)
               /\ b[2] <= (IF c = 244 THEN 143 ELSE 191)
               /\ IsCont(b[3])
               /\ IsCont(b[4])
               /\ Utf8Valid(SubSeq(b, 5, n))
          ELSE FALSE

(***************************************************************************)
(* httptest.ResponseRecorder, the sink Run hands to the handler            *)
(***************************************************************************)
ContentType == <<67, 111, 110, 116, 101, 110, 116, 45, 84, 121, 112, 101>>  \* "Content-Type"

TransferEncoding ==
  <<84, 114, 97, 110, 115, 102, 101, 114, 45, 69, 110, 99, 111, 100, 105, 110, 103>>  \* "Transfer-Encoding"

TextPlain ==  \* "text/plain; charset=utf-8"
  <<116, 101, 120, 116, 47, 112, 108, 97, 105, 110, 59, 32, 99, 104, 97, 114, 115, 101, 116, 61, 117, 116, 102, 45, 56>>

OctetStream ==  \* "application/octet-stream"
  <<97, 112, 112, 108, 105, 99, 97, 116, 105, 111, 110, 47, 111, 99, 116, 101, 116, 45, 115, 116, 114, 101, 97, 109>>

\* http.DetectContentType for data that matches no signature before the text one:
\* text unless it holds one of the bytes the sniffer counts as binary.
DetectContentType(buf) ==
  IF \E i \in DOMAIN buf : buf[i] <= 8 \/ buf[i] = 11 \/ (buf[i] >= 14 /\ buf[i] <= 26) \/ (buf[i] >= 28 /\ buf[i] <= 31)
  THEN OctetStream
  ELSE TextPlain

\* httptest.NewRecorder()
NewRecorder ==
  [Code |-> 200, HeaderMap |-> <<>>, Body |-> <<>>, wroteHeader |-> FALSE, snapHeader |-> NilMap]

\* ResponseRecorder.WriteHeader: only the first call counts; it snapshots the headers.
RecWriteHeader(rw, code) ==
  IF rw.wroteHeader THEN rw
  ELSE [rw EXCEPT !.Code = code, !.wroteHeader = TRUE, !.snapHeader = MkMap(rw.HeaderMap)]

\* ResponseRecorder.Write: an implicit WriteHeader(200), with a sniffed Content-Type
\* when the handler set none, then the bytes are appended to the buffer.
RecWrite(rw, buf) ==
  LET sniff == /\ ~rw.wroteHeader
               /\ ContentType \notin DOMAIN rw.HeaderMap
               /\ HeaderGet(rw.HeaderMap, TransferEncoding) = <<>>
      typed == IF sniff
               THEN [rw EXCEPT !.HeaderMap = MapPut(rw.HeaderMap, ContentType, <<DetectContentType(buf)>>)]
               ELSE rw
      headed == RecWriteHeader(typed, 200)
  IN [headed EXCEPT !.Body = headed.Body \o buf]

\* http.StatusText for the codes the handlers of the model use.
StatusText(code) ==
  CASE code = 200 -> "200 OK"
    [] code = 404 -> "404 Not Found"
    [] code = 500 -> "500 Internal Server Error"
    [] OTHER -> "000 "

\* ResponseRecorder.Result(): the status and the header snapshot.
Result(rw) ==
  LET code == IF rw.Code = 0 THEN 200 ELSE rw.Code
  IN [StatusCode |-> code,
      Status |-> StatusText(code),
      Header |-> IF rw.snapHeader.nil THEN rw.HeaderMap ELSE rw.snapHeader.m]

(***************************************************************************)
(* response.SetHeaders                                                     *)
(***************************************************************************)
\* strings.Join
RECURSIVE Join(_, _)
Join(vv, sep) ==
  IF vv = <<>> THEN <<>>
  ELSE IF Len(vv) = 1 THEN vv[1]
  ELSE vv[1] \o sep \o Join(Tail(vv), sep)

Comma == <<44>>

\* SetHeaders that keeps only the last value of each header.
SetHeadersLastValue(req, res) ==
  IF req.MultiValueHeaders.nil
  THEN [Headers |-> MkMap([k \in DOMAIN res.Header |->
                      IF res.Header[k] = <<>> THEN <<>> ELSE res.Header[k][Len(res.Header[k])]]),
        MultiValueHeaders |-> NilMap]
  ELSE [Headers |-> NilMap, MultiValueHeaders |-> MkMap(res.Header)]

\* SetHeaders that always fills the single-value field.
SetHeadersAlwaysSingle(req, res) ==
  [Headers |-> MkMap([k \in DOMAIN res.Header |-> Join(res.Header[k], Comma)]),
   MultiValueHeaders |-> NilMap]

\* The two header fields of the reply after out.SetHeaders(&req, res).
SetHeaders(req, res) ==
  IF req.MultiValueHeaders.nil
  THEN [Headers |-> MkMap([k \in DOMAIN res.Header |-> Join(res.Header[k], Comma)]),
        MultiValueHeaders |-> NilMap]
  ELSE [Headers |-> NilMap, MultiValueHeaders |-> MkMap(res.Header)]

(***************************************************************************)
(* lambdaHandler.Run, in the pieces its steps are made of                  *)
(***************************************************************************)
\* Run that hands a body it cannot decode to the handler as it came.
RequestBodyPassThrough(req) ==
  LET dec == DecodeString(req.Body)
  IN IF req.BodyEncoded /\ dec.ok
     THEN [ok |-> TRUE, Body |-> dec.b, ContentLength |-> Len(dec.b)]
     ELSE [ok |-> TRUE, Body |-> req.Body, ContentLength |-> Len(req.Body)]

\* Run that declares the length of the event's text for a decoded body.
RequestBodyTextLength(req) ==
  LET dec == DecodeString(req.Body)
  IN IF req.BodyEncoded
     THEN [ok |-> dec.ok, Body |-> dec.b, ContentLength |-> Len(req.Body)]
     ELSE [ok |-> TRUE, Body |-> req.Body, ContentLength |-> Len(req.Body)]

\* The switch on req.BodyEncoded: the request body, its declared length, or the
\* decoder's error.
RequestBody(req) ==
  LET dec == DecodeString(req.Body)
  IN IF req.BodyEncoded
     THEN [ok |-> dec.ok, Body |-> dec.b, ContentLength |-> Len(dec.b)]
     ELSE [ok |-> TRUE, Body |-> req.Body, ContentLength |-> Len(req.Body)]

\* Run that takes the status of the reply to be 200 whatever was recorded.
ReplyStatusAlwaysOK(res) == 200

\* StatusCode: res.StatusCode
ReplyStatus(res) == res.StatusCode

\* Run that never encodes the body.
ReplyBodyNeverEncoded(b) == [Body |-> b, BodyEncoded |-> FALSE]

\* The body of the reply and its flag, from the bytes the recorder captured.
ReplyBody(b) ==
  IF Utf8Valid(b)
  THEN [Body |-> b, BodyEncoded |-> FALSE]
  ELSE [Body |-> EncodeToString(b), BodyEncoded |-> TRUE]

\* Run that reports a handler's 5xx status as its own error.
ReplyErrorOnServerError(res) == IF res.StatusCode >= 500 THEN "handler" ELSE ""

\* The error Run returns once the handler has returned: none ("return out, nil").
ReplyError(res) == ""

NoRequest ==
  [URL |-> BadURL, Header |-> <<>>, Host |-> <<>>, Body |-> <<>>, ContentLength |-> 0]

NoResponse ==
  [nil |-> TRUE, StatusCode |-> 0, Status |-> "", Headers |-> NilMap,
   MultiValueHeaders |-> NilMap, Body |-> <<>>, BodyEncoded |-> FALSE]

HostKey == <<72, 111, 115, 116>>  \* "Host"

VARIABLES
  pc,        \* where Run stands: "start", "serve" (inside handler.ServeHTTP), "done"
             \* (returned), "panicked" (unwound by a panic of the handler)
  req,       \* the event Run was called with
  provided,  \* what QueryProvided and HeadersProvided returned to Run
  r,         \* the *http.Request Run built
  rec,       \* the recorder
  hlog,      \* the calls the handler has made on the recorder, in order
  out,       \* the *response Run returned (nil: NoResponse)
  err,       \* the error Run returned ("": nil)
  calls,     \* how many times handler.ServeHTTP was called
  hh         \* the construction: the handler given to Handler, how the call of
             \* Handler stands ("new", "returned", "panicked"), the function it returned

vars == <<pc, req, provided, r, rec, hlog, out, err, calls, hh>>

\* Handler that wraps whatever it is given.
HandlerUnchecked(h) == [state |-> "returned", fn |-> "Run"]

\* Handler(h): panics on a nil handler, else returns the method value hh.Run.
Handler(h) ==
  IF h = "nil"
  THEN [state |-> "panicked", fn |-> "nil"]
  ELSE [state |-> "returned", fn |-> "Run"]

\* The program calls Handler with the handler it was wired with.
CallHandler ==
  /\ hh.state = "new"
  /\ hh' = [handler |-> hh.handler, state |-> Handler(hh.handler).state, fn |-> Handler(hh.handler).fn]
  /\ UNCHANGED <<pc, req, provided, r, rec, hlog, out, err, calls>>

\* Lines 118-150: the URL, the headers and the body of the request; an error of
\* buildURL or of the decoder is returned at once, else the handler is called.
RunBegin ==
  /\ hh.fn = "Run"
  /\ pc = "start"
  /\ LET q == QueryProvided(req)
         hp == HeadersProvided(req)
         body == RequestBody(req)
     IN \E qord \in Orders(DOMAIN q), hord \in Orders(DOMAIN hp) :
          LET u == buildURL(req.Path, q, qord)
              headers == CanonicalizeHeaders(hp, hord, <<>>)
          IN IF ~u.ok
             THEN /\ provided' = [Query |-> MkMap(q), Headers |-> NilMap]
                  /\ err' = "url"
                  /\ pc' = "done"
                  /\ UNCHANGED <<r, rec, calls>>
             ELSE IF ~body.ok
             THEN /\ provided' = [Query |-> MkMap(q), Headers |-> MkMap(hp)]
                  /\ err' = "base64"
                  /\ pc' = "done"
                  /\ UNCHANGED <<r, rec, calls>>
             ELSE /\ provided' = [Query |-> MkMap(q), Headers |-> MkMap(hp)]
                  /\ r' = [URL |-> u, Header |-> headers, Host |-> HeaderGet(headers, HostKey),
                           Body |-> body.Body, ContentLength |-> body.ContentLength]
                  /\ rec' = NewRecorder
                  /\ IF hh.handler = "nil"
                     THEN pc' = "panicked" /\ UNCHANGED calls
                     ELSE pc' = "serve" /\ calls' = calls + 1
                  /\ UNCHANGED err
  /\ UNCHANGED <<req, hlog, out, hh>>

(***************************************************************************)
(* The handler: the calls an http.Handler can make on the recorder while   *)
(* ServeHTTP runs.  At most MaxOps calls are followed.                     *)
(***************************************************************************)
MaxOps == 3

RespKey == <<120, 45, 97>>  \* "x-a", stored as "X-A"

RespVals == {<<102>>, <<115>>}  \* "f", "s"

TypeKey == <<99, 111, 110, 116, 101, 110, 116, 45, 116, 121, 112, 101>>  \* "content-type"

TypeVal == <<116>>  \* "t"

StatusCodes == {404, 500}

\* "h", the two bytes of U+00E9 one at a time, and a byte no UTF-8 text holds.
Chunks == {<<104>>, <<195>>, <<169>>, <<255>>}

LogEntry(op, key, val, code) == [op |-> op, key |-> key, val |-> val, code |-> code]

\* w.Header().Add(key, val)
HandlerAdd ==
  /\ pc = "serve"
  /\ Len(hlog) < MaxOps
  /\ \E val \in RespVals :
       LET k == CanonicalMIMEHeaderKey(RespKey)
       IN /\ rec' = [rec EXCEPT !.HeaderMap = MapPut(rec.HeaderMap, k, MapGet(rec.HeaderMap, k) \o <<val>>)]
          /\ hlog' = Append(hlog, LogEntry("Add", RespKey, val, 0))
  /\ UNCHANGED <<pc, req, provided, r, out, err, calls, hh>>

\* w.Header().Set(key, val)
HandlerSet ==
  /\ pc = "serve"
  /\ Len(hlog) < MaxOps
  /\ rec' = [rec EXCEPT !.HeaderMap = MapPut(rec.HeaderMap, CanonicalMIMEHeaderKey(TypeKey), <<TypeVal>>)]
  /\ hlog' = Append(hlog, LogEntry("Set", TypeKey, TypeVal, 0))
  /\ UNCHANGED <<pc, req, provided, r, out, err, calls, hh>>

\* w.WriteHeader(code)
HandlerWriteHeader ==
  /\ pc = "serve"
  /\ Len(hlog) < MaxOps
  /\ \E code \in StatusCodes :
       /\ rec' = RecWriteHeader(rec, code)
       /\ hlog' = Append(hlog, LogEntry("WriteHeader", <<>>, <<>>, code))
  /\ UNCHANGED <<pc, req, provided, r, out, err, calls, hh>>

\* w.Write(buf)
HandlerWrite ==
  /\ pc = "serve"
  /\ Len(hlog) < MaxOps
  /\ \E buf \in Chunks :
       /\ rec' = RecWrite(rec, buf)
       /\ hlog' = Append(hlog, LogEntry("Write", <<>>, buf, 0))
  /\ UNCHANGED <<pc, req, provided, r, out, err, calls, hh>>

\* The handler panics (its own panic, or the recorder's on a status code that is
\* no valid one).  Run has no deferred recover around handler.ServeHTTP: the panic
\* unwinds Run, which returns nothing, and goes on to Run's caller.
HandlerPanic ==
  /\ pc = "serve"
  /\ hlog' = Append(hlog, LogEntry("Panic", <<>>, <<>>, 0))
  /\ pc' = "panicked"
  /\ UNCHANGED <<req, provided, r, rec, out, err, calls, hh>>

\* Lines 151-163: the handler has returned; the reply is built from the recorder.
RunEnd ==
  /\ pc = "serve"
  /\ LET res == Result(rec)
         hdrs == SetHeaders(req, res)
         body == ReplyBody(rec.Body)
         e == ReplyError(res)
     IN /\ err' = e
        /\ out' = IF e # "" THEN NoResponse
                  ELSE [nil |-> FALSE,
                        StatusCode |-> ReplyStatus(res),
                        Status |-> res.Status,
                        Headers |-> hdrs.Headers,
                        MultiValueHeaders |-> hdrs.MultiValueHeaders,
                        Body |-> body.Body,
                        BodyEncoded |-> body.BodyEncoded]
  /\ pc' = "done"
  /\ UNCHANGED <<req, provided, r, rec, hlog, calls, hh>>

(***************************************************************************)
(* The events Run is called with                                           *)
(***************************************************************************)
\* An event holds at most MaxPairs header values and MaxPairs query values.
MaxPairs == 2

Event(path, query, mvQuery, headers, mvHeaders, body, encoded) ==
  [Path |-> path, Query |-> query, MultiValueQuery |-> mvQuery, Headers |-> headers,
   MultiValueHeaders |-> mvHeaders, Body |-> body, BodyEncoded |-> encoded]

PairSeqs(K, V) == UNION {[1..n -> K \X V] : n \in 0..MaxPairs}

\* The multi-value map a JSON object of these pairs decodes to, and the single-value one.
RECURSIVE MultiOf(_, _)
MultiOf(ps, m) ==
  IF ps = <<>> THEN m
  ELSE MultiOf(Tail(ps), MapPut(m, Head(ps)[1], MapGet(m, Head(ps)[1]) \o <<Head(ps)[2]>>))

RECURSIVE SingleOf(_, _)
SingleOf(ps, m) ==
  IF ps = <<>> THEN m
  ELSE SingleOf(Tail(ps), MapPut(m, Head(ps)[1], Head(ps)[2]))

MultiMaps(K, V) == {MultiOf(ps, <<>>) : ps \in PairSeqs(K, V)}

SingleMaps(K, V) == {SingleOf(ps, <<>>) : ps \in PairSeqs(K, V)}

\* Header names: "c-t", "C-T", "C-t" (one header in three casings), "c t" (no token).
HeaderKeys == {<<99, 45, 116>>, <<67, 45, 84>>, <<67, 45, 116>>, <<99, 32, 116>>}

HeaderVals == {<<118>>, <<119>>}  \* "v", "w"

\* Query names: "a", "%61" (an escaped "a"), "b".
QueryKeys == {<<97>>, <<37, 54, 49>>, <<98>>}

\* Query values: "x", "x%20y", "x&y", "%zz", "a+b", "x#y", "x;y", "".
QueryVals ==
  {<<120>>, <<120, 37, 50, 48, 121>>, <<120, 38, 121>>, <<37, 122, 122>>,
   <<97, 43, 98>>, <<120, 35, 121>>, <<120, 59, 121>>, <<>>}

\* Paths: "/p", "/p%20q", "/%zz", "/p?z=1", "/p#f", "p:q", ":p", "", "*".
Paths ==
  {<<47, 112>>, <<47, 112, 37, 50, 48, 113>>, <<47, 37, 122, 122>>, <<47, 112, 63, 122, 61, 49>>,
   <<47, 112, 35, 102>>, <<112, 58, 113>>, <<58, 112>>, <<>>, <<42>>}

\* Bodies: "", "hi", "aGk=" ("hi" encoded), "aGl=" (the same bytes, loose last
\* character), "aG\nk=" (a line break inside), "aGk" (padding missing), "a!k="
\* (outside the alphabet), "/w==" (the byte 0xFF encoded), "aGk=aGk=" (padding
\* in the middle).
Bodies ==
  {<<>>, <<104, 105>>, <<97, 71, 107, 61>>, <<97, 71, 108, 61>>, <<97, 71, 10, 107, 61>>,
   <<97, 71, 107>>, <<97, 33, 107, 61>>, <<47, 119, 61, 61>>,
   <<97, 71, 107, 61, 97, 71, 107, 61>>}

PlainPath == <<47, 112>>  \* "/p"

NilOr(maps) == {NilMap} \cup {MkMap(m) : m \in maps}

\* Events that vary the query, the headers, or the path and the body.
QueryEvents ==
  {Event(PlainPath, q, mq, NilMap, NilMap, <<>>, FALSE) :
     q \in NilOr(SingleMaps(QueryKeys, QueryVals)), mq \in {NilMap, MkMap(<<>>)}}
  \cup
  {Event(PlainPath, q, mq, NilMap, NilMap, <<>>, FALSE) :
     q \in {NilMap, MkMap(SingleOf(<<<< <<98>>, <<120>> >>>>, <<>>))},
     mq \in NilOr(MultiMaps(QueryKeys, QueryVals)
                  \cup {SingleOf(<<<< <<97>>, <<>> >>>>, <<>>)})}

HeaderEvents ==
  {Event(PlainPath, NilMap, NilMap, h, mh, <<>>, FALSE) :
     h \in NilOr(SingleMaps(HeaderKeys, HeaderVals)), mh \in {NilMap, MkMap(<<>>)}}
  \cup
  {Event(PlainPath, NilMap, NilMap, h, mh, <<>>, FALSE) :
     h \in {NilMap, MkMap(SingleOf(<<<< <<99, 45, 116>>, <<118>> >>>>, <<>>))},
     mh \in NilOr(MultiMaps(HeaderKeys, HeaderVals)
                  \cup {SingleOf(<<<< <<99, 45, 116>>, <<>> >>>>, <<>>)})}

BodyEvents ==
  {Event(p, q, NilMap, NilMap, NilMap, b, e) :
     p \in Paths, q \in {NilMap, MkMap(SingleOf(<<<< <<98>>, <<120>> >>>>, <<>>))},
     b \in Bodies, e \in BOOLEAN}

\* Events with both forms of the query and of the headers, absent, empty or filled.
PresenceEvents ==
  {Event(PlainPath, q, mq, h, mh, <<>>, FALSE) :
     q \in {NilMap, MkMap(SingleOf(<<<< <<98>>, <<120>> >>>>, <<>>))},
     mq \in {NilMap, MkMap(<<>>), MkMap(SingleOf(<<<< <<97>>, <<<<120>>>> >>>>, <<>>))},
     h \in {NilMap, MkMap(SingleOf(<<<< <<99, 45, 116>>, <<118>> >>>>, <<>>))},
     mh \in {NilMap, MkMap(<<>>), MkMap(SingleOf(<<<< <<67, 45, 84>>, <<<<119>>>> >>>>, <<>>))}}

InputEvents == QueryEvents \cup HeaderEvents \cup BodyEvents \cup PresenceEvents

\* The events the handlers of the model are run on: headers in either form, a
\* plain or an encoded body, a path that parses or not.
HostHeader == SingleOf(<<<< <<104, 111, 115, 116>>, <<104>> >>>>, <<>>)  \* "host": "h"

IdHeader == SingleOf(<<<< <<120, 45, 105, 100>>, <<<<118>>>> >>>>, <<>>)  \* "x-id": ["v"]

HandlerEvents ==
  {Event(p, NilMap, NilMap, h, mh, b[1], b[2]) :
     p \in {PlainPath, <<47, 37, 122, 122>>},
     h \in {NilMap, MkMap(HostHeader)},
     mh \in {NilMap, MkMap(<<>>), MkMap(IdHeader)},
     b \in {<< <<>>, FALSE >>, << <<97, 71, 107, 61>>, TRUE >>, << <<97, 71, 107>>, TRUE >>}}

\* The handler the program wires in: none (a nil http.Handler), or one.
Handlers == {"nil", "h"}

InitWith(events) ==
  /\ pc = "start"
  /\ req \in events
  /\ provided = [Query |-> NilMap, Headers |-> NilMap]
  /\ r = NoRequest
  /\ rec = NewRecorder
  /\ hlog = <<>>
  /\ out = NoResponse
  /\ err = ""
  /\ calls = 0
  /\ hh \in {[handler |-> h, state |-> "new", fn |-> "nil"] : h \in Handlers}

\* Run on an event, with a handler that makes any calls on the recorder.
Init == InitWith(HandlerEvents)

Next ==
  \/ CallHandler
  \/ RunBegin
  \/ HandlerAdd
  \/ HandlerSet
  \/ HandlerWriteHeader
  \/ HandlerWrite
  \/ HandlerPanic
  \/ RunEnd

Spec == Init /\ [][Next]_vars

\* Run on any event of the model, with a handler that returns at once.
InitInput == InitWith(InputEvents)

NextInput ==
  \/ CallHandler
  \/ RunBegin
  \/ RunEnd

SpecInput == InitInput /\ [][NextInput]_vars

(***************************************************************************)
(* Properties                                                              *)
(***************************************************************************)
\* The mapping the event's two forms of a field resolve to, stated on the forms.
ResolvesTo(resolved, single, multi) ==
  /\ ~resolved.nil
  /\ ~multi.nil => resolved.m = multi.m
  /\ multi.nil =>
       /\ DOMAIN resolved.m = DOMAIN single.m
       /\ \A k \in DOMAIN single.m : resolved.m[k] = <<single.m[k]>>

\* C1: for the query and for the headers, the mapping Run works with is the
\* multi-value map whenever that map is present, empty or not, and the
\* single-value map is then ignored; only when the multi-value map is absent is
\* it the single-value map with each value wrapped as a one-element sequence.
\* (Run resolves the headers only once buildURL has succeeded.)
C1_ResolvedByPresence ==
  pc # "start" =>
    /\ ResolvesTo(provided.Query, req.Query, req.MultiValueQuery)
    /\ err # "url" => ResolvesTo(provided.Headers, req.Headers, req.MultiValueHeaders)

\* Both multi-value maps present and empty, both single-value maps filled: the
\* resolved mappings are empty.
C1_Witness ==
  /\ pc = "serve"
  /\ ~req.MultiValueQuery.nil /\ DOMAIN req.MultiValueQuery.m = {}
  /\ ~req.MultiValueHeaders.nil /\ DOMAIN req.MultiValueHeaders.m = {}
  /\ DOMAIN req.Query.m # {} /\ DOMAIN req.Headers.m # {}
  /\ DOMAIN provided.Query.m = {} /\ DOMAIN provided.Headers.m = {}

\* C2: in every reply exactly one header field is populated and it matches the
\* inbound form: with multi-value headers present in the event, multiHeaders is
\* the recorded header mapping and headers is absent; with them absent, headers
\* is a non-nil map and multiHeaders is absent.
C2_ReplyHeaderForm ==
  (pc = "done" /\ ~out.nil) =>
    IF ~req.MultiValueHeaders.nil
    THEN /\ ~out.MultiValueHeaders.nil
         /\ out.MultiValueHeaders.m = Result(rec).Header
         /\ out.Headers.nil
    ELSE /\ ~out.Headers.nil
         /\ out.MultiValueHeaders.nil

\* A reply in multi-value form that carries the two values the handler added.
C2_Witness ==
  /\ pc = "done"
  /\ ~req.MultiValueHeaders.nil
  /\ ~out.nil
  /\ out.Headers.nil
  /\ CanonicalMIMEHeaderKey(RespKey) \in DOMAIN out.MultiValueHeaders.m
  /\ Len(out.MultiValueHeaders.m[CanonicalMIMEHeaderKey(RespKey)]) = 2

\* The values joined with ',', built from the last value backwards.
RECURSIVE CommaJoined(_)
CommaJoined(vv) ==
  IF vv = <<>> THEN <<>>
  ELSE IF Len(vv) = 1 THEN vv[1]
  ELSE CommaJoined(SubSeq(vv, 1, Len(vv) - 1)) \o <<44>> \o vv[Len(vv)]

\* The handler's calls up to the one that sent the header (the first WriteHeader
\* or Write): later changes of the header map are not part of the response.
Committed(log) ==
  LET sent == {i \in DOMAIN log : log[i].op \in {"WriteHeader", "Write"}}
  IN IF sent = {} THEN log
     ELSE SubSeq(log, 1, (CHOOSE i \in sent : \A j \in sent : i <= j) - 1)

\* The values the handler added under RespKey before the header was sent, in order.
AddedValues(log) ==
  LET adds == SelectSeq(Committed(log), LAMBDA e : e.op = "Add" /\ e.key = RespKey)
  IN [i \in DOMAIN adds |-> adds[i].val]

\* C3: in single-value reply mode the reply has exactly the header keys of the
\* recorded response, and each value is the recorded values of that key joined
\* with ',' in the order the handler added them.
C3_JoinedInOrder ==
  (pc = "done" /\ ~out.nil /\ req.MultiValueHeaders.nil) =>
    /\ DOMAIN out.Headers.m = DOMAIN Result(rec).Header
    /\ \A k \in DOMAIN out.Headers.m : out.Headers.m[k] = CommaJoined(Result(rec).Header[k])
    /\ LET k == CanonicalMIMEHeaderKey(RespKey)
       IN IF AddedValues(hlog) = <<>>
          THEN k \notin DOMAIN out.Headers.m
          ELSE k \in DOMAIN out.Headers.m /\ out.Headers.m[k] = CommaJoined(AddedValues(hlog))

\* Add "f" then Add "s" under one key: the reply holds "f,s".
C3_Witness ==
  /\ pc = "done"
  /\ req.MultiValueHeaders.nil
  /\ ~out.nil
  /\ AddedValues(hlog) = << <<102>>, <<115>> >>
  /\ out.Headers.m[CanonicalMIMEHeaderKey(RespKey)] = <<102, 44, 115>>

\* All the bytes the handler wrote, in order.
Written(log) ==
  LET ws == SelectSeq(log, LAMBDA e : e.op = "Write")
  IN Flatten([i \in DOMAIN ws |-> ws[i].val])

\* UTF-8 by its definition (RFC 3629): a sequence of encodings, each the shortest
\* one of a scalar value that is no surrogate and at most U+10FFFF.
RECURSIVE WellFormedUtf8(_)
WellFormedUtf8(b) ==
  \/ b = <<>>
  \/ /\ Len(b) >= 1
     /\ b[1] < 128
     /\ WellFormedUtf8(SubSeq(b, 2, Len(b)))
  \/ /\ Len(b) >= 2
     /\ b[1] \in 192..223 /\ b[2] \in 128..191
     /\ (b[1] - 192) * 64 + (b[2] - 128) >= 128
     /\ WellFormedUtf8(SubSeq(b, 3, Len(b)))
  \/ /\ Len(b) >= 3
     /\ b[1] \in 224..239 /\ b[2] \in 128..191 /\ b[3] \in 128..191
     /\ LET cp == (b[1] - 224) * 4096 + (b[2] - 128) * 64 + (b[3] - 128)
        IN cp >= 2048 /\ cp \notin 55296..57343
     /\ WellFormedUtf8(SubSeq(b, 4, Len(b)))
  \/ /\ Len(b) >= 4
     /\ b[1] \in 240..247 /\ b[2] \in 128..191 /\ b[3] \in 128..191 /\ b[4] \in 128..191
     /\ LET cp == (b[1] - 240) * 262144 + (b[2] - 128) * 4096 + (b[3] - 128) * 64 + (b[4] - 128)
        IN cp >= 65536 /\ cp <= 1114111
     /\ WellFormedUtf8(SubSeq(b, 5, Len(b)))

\* C4: the reply's bodyEncoded flag is true exactly when the complete bytes the
\* handler wrote are not valid UTF-8; with the flag false the body is those
\* bytes, with it true the body is their standard base64 encoding, so decoding
\* the body according to the flag yields the bytes written.
C4_BodyEncoding ==
  (pc = "done" /\ ~out.nil) =>
    LET b == Written(hlog)
    IN /\ out.BodyEncoded <=> ~WellFormedUtf8(b)
       /\ ~out.BodyEncoded => out.Body = b
       /\ out.BodyEncoded =>
            /\ out.Body = EncodeToString(b)
            /\ DecodeString(out.Body) = [ok |-> TRUE, b |-> b]

\* The handler wrote 'h' and the byte 0xFF: the reply is "aP8=", flagged encoded.
C4_Witness ==
  /\ pc = "done"
  /\ ~out.nil
  /\ Written(hlog) = <<104, 255>>
  /\ out.BodyEncoded
  /\ out.Body = <<97, 80, 56, 61>>

\* Base64 text by its shape: line breaks aside, a multiple of four characters,
\* all of the alphabet but for one or two '=' at the very end.
WellFormedBase64(s) ==
  LET t == StripNewlines(s)
      n == Len(t)
      pad == IF n >= 1 /\ t[n] = 61 THEN (IF n >= 2 /\ t[n - 1] = 61 THEN 2 ELSE 1) ELSE 0
  IN /\ n % 4 = 0
     /\ \A i \in 1..(n - pad) : B64Val(t[i]) >= 0

\* buildURL fails on the event in whatever order it visits the query's keys.
URLUnparsable(e) ==
  \A ord \in Orders(DOMAIN QueryProvided(e)) : ~buildURL(e.Path, QueryProvided(e), ord).ok

\* C5: when the path and query cannot be parsed as a URL, or bodyEncoded is true
\* and the body is not valid base64, Run returns an error and no reply, and the
\* handler is never invoked; an error never comes with a reply or a handler call.
C5_ErrorsTerminal ==
  /\ (pc = "done" /\ (URLUnparsable(req) \/ (req.BodyEncoded /\ ~WellFormedBase64(req.Body)))) =>
       (err # "" /\ out.nil /\ calls = 0)
  /\ (URLUnparsable(req) \/ (req.BodyEncoded /\ ~WellFormedBase64(req.Body))) => pc # "serve"
  /\ err # "" => (out.nil /\ calls = 0)

\* "aGk" flagged as encoded, under a path that parses: an error, no reply, no call.
C5_Witness ==
  /\ pc = "done"
  /\ req.BodyEncoded
  /\ req.Body = <<97, 71, 107>>
  /\ ~URLUnparsable(req)
  /\ err = "base64"
  /\ out.nil
  /\ calls = 0

\* b is what the base64 text s stands for: byte by byte, the bits of the text's
\* characters, and as much padding as the length of b calls for.
IsDecodingOf(b, s) ==
  LET t == StripNewlines(s)
      v(j) == B64Val(t[j])
      byte(i) ==
        LET q == 4 * ((i - 1) \div 3)
        IN CASE (i - 1) % 3 = 0 -> v(q + 1) * 4 + v(q + 2) \div 16
             [] (i - 1) % 3 = 1 -> (v(q + 2) % 16) * 16 + v(q + 3) \div 4
             [] OTHER -> (v(q + 3) % 4) * 64 + v(q + 4)
  IN /\ WellFormedBase64(s)
     /\ Len(t) = 4 * ((Len(b) + 2) \div 3)
     /\ \A i \in DOMAIN b : b[i] = byte(i)

\* C6: when reconstruction succeeds, the request body and its declared length
\* agree with the event body: not encoded, the body is the event's string byte
\* for byte and the length its byte length; encoded, the body is the decoded
\* bytes and the length their count.
C6_BodyAndLength ==
  (pc # "start" /\ calls > 0) =>
    /\ r.ContentLength = Len(r.Body)
    /\ ~req.BodyEncoded => r.Body = req.Body
    /\ req.BodyEncoded => IsDecodingOf(r.Body, req.Body)

\* "aG\nk=" flagged as encoded: the handler is given "hi", declared length 2.
C6_Witness ==
  /\ pc = "serve"
  /\ req.BodyEncoded
  /\ req.Body = <<97, 71, 10, 107, 61>>
  /\ r.Body = <<104, 105>>
  /\ r.ContentLength = 2

\* C7: when the handler makes no set-status call, whatever else it does, the
\* reply's statusCode is 200; when it sets a status before writing, the reply's
\* statusCode is that status.
C7_StatusDefault ==
  (pc = "done" /\ ~out.nil) =>
    /\ (\A i \in DOMAIN hlog : hlog[i].op # "WriteHeader") => out.StatusCode = 200
    /\ \A i \in DOMAIN hlog :
         (hlog[i].op = "WriteHeader" /\ \A j \in 1..(i - 1) : hlog[j].op \notin {"WriteHeader", "Write"})
           => out.StatusCode = hlog[i].code

\* The handler set a header, then status 404, then wrote: the reply's status is 404.
C7_Witness ==
  /\ pc = "done"
  /\ ~out.nil
  /\ Len(hlog) = 3
  /\ hlog[1].op = "Set"
  /\ hlog[2].op = "WriteHeader" /\ hlog[2].code = 404
  /\ hlog[3].op = "Write"
  /\ out.StatusCode = 404

\* C8: once reconstruction has succeeded, Run returns a reply and a nil error
\* whatever the handler did: nothing, headers only, a 4xx or a 5xx status.
C8_HandlerNeverFails ==
  (pc = "done" /\ calls > 0) =>
    /\ err = ""
    /\ ~out.nil
    /\ (hlog # <<>> /\ hlog[1].op = "WriteHeader") => out.StatusCode = hlog[1].code
    /\ Written(hlog) = <<>> => (out.Body = <<>> /\ ~out.BodyEncoded)

\* The handler set status 500 and wrote nothing: a reply with status 500, no error.
C8_Witness ==
  /\ pc = "done"
  /\ hlog # <<>>
  /\ hlog[1].op = "WriteHeader" /\ hlog[1].code = 500
  /\ Written(hlog) = <<>>
  /\ err = ""
  /\ ~out.nil
  /\ out.StatusCode = 500
  /\ out.Body = <<>>

Lower(s) == [i \in DOMAIN s |-> IF IsUpper(s[i]) THEN s[i] + 32 ELSE s[i]]

\* The same header name but for the case of its letters.
SameIgnoringCase(k, l) == Lower(k) = Lower(l)

\* The names a handler looks headers up by: "C-T", "c-t", "C-t", "c-T", "C T", "c t".
LookupKeys ==
  {<<67, 45, 84>>, <<99, 45, 116>>, <<67, 45, 116>>, <<99, 45, 84>>, <<67, 32, 84>>, <<99, 32, 116>>}

\* A header name made of token characters only (RFC 7230).
IsToken(k) ==
  \A i \in DOMAIN k :
    \/ k[i] \in 48..57 \/ k[i] \in 65..90 \/ k[i] \in 97..122
    \/ k[i] \in {33, 35, 36, 37, 38, 39, 42, 43, 45, 46, 94, 95, 96, 124, 126}

\* C9, as stated (for header names made of token characters): every inbound
\* header, in any casing, is retrieved with its supplied (first) value when the
\* handler looks it up in any casing.
C9_AnyCasingRetrieved ==
  (pc = "serve") =>
    \A k \in DOMAIN provided.Headers.m, l \in LookupKeys :
      (IsToken(k) /\ SameIgnoringCase(k, l) /\ provided.Headers.m[k] # <<>>)
        => HeaderGet(r.Header, l) = provided.Headers.m[k][1]

\* C9, amended: an inbound header whose name is made of token characters, and
\* that no other inbound header equals but for case, is stored under its
\* canonical form and retrieved with its supplied (first) value when the handler
\* looks it up in any casing.
C9_UniqueTokenRetrieved ==
  (pc = "serve") =>
    \A k \in DOMAIN provided.Headers.m :
      (/\ IsToken(k)
       /\ \A k2 \in DOMAIN provided.Headers.m : SameIgnoringCase(k, k2) => k2 = k)
        => /\ \E c \in DOMAIN r.Header : SameIgnoringCase(c, k) /\ r.Header[c] = provided.Headers.m[k]
           /\ \A l \in LookupKeys :
                (SameIgnoringCase(k, l) /\ provided.Headers.m[k] # <<>>)
                  => HeaderGet(r.Header, l) = provided.Headers.m[k][1]

\* "c-t": "v" supplied in lower case alone is read back under "C-T".
C9_Witness ==
  /\ pc = "serve"
  /\ DOMAIN provided.Headers.m = {<<99, 45, 116>>}
  /\ provided.Headers.m[<<99, 45, 116>>] = << <<118>> >>
  /\ HeaderGet(r.Header, <<67, 45, 84>>) = <<118>>

\* Percent-decoding, once: each well-formed %XX becomes its byte, the rest stays.
RECURSIVE PercentDecode(_)
PercentDecode(s) ==
  IF s = <<>> THEN <<>>
  ELSE IF Len(s) >= 3 /\ s[1] = 37 /\ IsHex(s[2]) /\ IsHex(s[3])
       THEN <<Unhex(s[2]) * 16 + Unhex(s[3])>> \o PercentDecode(SubSeq(s, 4, Len(s)))
       ELSE <<s[1]>> \o PercentDecode(Tail(s))

\* The parsed query of the built URL holds, under each decoded key, that key's
\* input values decoded once and in order, and holds no other key.
QueryRoundTrips(query, url) ==
  LET got == URLQuery(url)
  IN /\ \A k \in DOMAIN query :
          MapGet(got, PercentDecode(k)) = [i \in DOMAIN query[k] |-> PercentDecode(query[k][i])]
     /\ \A g \in DOMAIN got : \E k \in DOMAIN query : query[k] # <<>> /\ PercentDecode(k) = g

\* C10, as stated: for every non-empty query mapping the parsed query values of
\* buildURL's output are the input values decoded once, in order, none added or lost.
C10_AnyQueryRoundTrips ==
  (pc = "serve" /\ DOMAIN provided.Query.m # {}) => QueryRoundTrips(provided.Query.m, r.URL)

\* Already escaped: unreserved characters (RFC 3986) and well-formed %XX only.
IsEscaped(s) ==
  /\ EscapesWellFormed(s)
  /\ \A i \in DOMAIN s :
       \/ s[i] \in 48..57 \/ s[i] \in 65..90 \/ s[i] \in 97..122
       \/ s[i] \in {37, 45, 46, 95, 126}

\* C10, amended: for every non-empty query mapping whose keys and values are
\* already percent-escaped, whose keys decode to distinct names, and whose path
\* holds neither '?' nor '#', the parsed query values of buildURL's output are
\* the input values decoded once, in order, under the decoded keys, none added
\* or lost.
C10_EscapedQueryRoundTrips ==
  (/\ pc = "serve"
   /\ DOMAIN provided.Query.m # {}
   /\ ~Contains(req.Path, 63) /\ ~Contains(req.Path, 35)
   /\ \A k \in DOMAIN provided.Query.m :
        /\ IsEscaped(k)
        /\ \A i \in DOMAIN provided.Query.m[k] : IsEscaped(provided.Query.m[k][i])
        /\ \A k2 \in DOMAIN provided.Query.m : PercentDecode(k) = PercentDecode(k2) => k = k2)
    => QueryRoundTrips(provided.Query.m, r.URL)

\* "a": ["x%20y", "x"] and "b": ["x"]: the handler reads "a" as ["x y", "x"].
C10_Witness ==
  /\ pc = "serve"
  /\ DOMAIN provided.Query.m = {<<97>>}
  /\ provided.Query.m[<<97>>] = << <<120, 37, 50, 48, 121>>, <<120>> >>
  /\ URLQuery(r.URL)[<<97>>] = << <<120, 32, 121>>, <<120>> >>

\* The handler panicked during its invocation.
Panicked(log) == \E i \in DOMAIN log : log[i].op = "Panic"

\* C11: a panic raised inside the handler is caught at the adapter boundary and
\* comes out of Run as a returned error, not as a panic that goes on to the host.
C11_PanicCaught ==
  Panicked(hlog) => (pc = "done" /\ err # "" /\ out.nil)

\* C12: Handler(nil) panics at construction and never returns an entry point, so
\* nothing is reported as a returned error at invocation time (Run is never
\* entered); Handler with a handler returns a non-nil entry point.
C12_NilHandlerPanics ==
  /\ hh.handler = "nil" =>
       /\ hh.state \in {"new", "panicked"}
       /\ hh.fn = "nil"
       /\ pc = "start" /\ err = "" /\ out.nil /\ calls = 0
  /\ (hh.handler # "nil" /\ hh.state # "new") => (hh.state = "returned" /\ hh.fn = "Run")

\* Handler was called with nil and panicked: no entry point, Run not entered.
C12_Witness ==
  /\ hh.handler = "nil"
  /\ hh.state = "panicked"
  /\ hh.fn = "nil"
  /\ pc = "start"

\* The inbound keys that share k's canonical form: the token keys equal to k but
\* for case (a key with a non-token byte is its own canonical form).
Colliding(hp, k) == {k2 \in DOMAIN hp : IsToken(k) /\ SameIgnoringCase(k, k2)}

\* C13: when two or more distinct inbound header keys have the same canonical
\* form, the request's header mapping has exactly one entry for that canonical
\* key, and its values are the values of one of the colliding keys, as supplied:
\* one assignment overwrites the other, the value lists are not merged.
C13_CollisionOverwrites ==
  (pc = "serve") =>
    \A k \in DOMAIN provided.Headers.m :
      Cardinality(Colliding(provided.Headers.m, k)) >= 2 =>
        /\ {c \in DOMAIN r.Header : SameIgnoringCase(c, k)} = {CanonicalMIMEHeaderKey(k)}
        /\ \E k2 \in Colliding(provided.Headers.m, k) :
             r.Header[CanonicalMIMEHeaderKey(k)] = provided.Headers.m[k2]

\* "c-t": ["v"] and "C-T": ["w"] supplied together: the request holds "C-T": ["w"]
\* alone, and "v" is not to be seen.
C13_Witness ==
  /\ pc = "serve"
  /\ DOMAIN provided.Headers.m = {<<99, 45, 116>>, <<67, 45, 84>>}
  /\ provided.Headers.m[<<99, 45, 116>>] = << <<118>> >>
  /\ provided.Headers.m[<<67, 45, 84>>] = << <<119>> >>
  /\ DOMAIN r.Header = {<<67, 45, 84>>}
  /\ r.Header[<<67, 45, 84>>] = << <<119>> >>

====
